---- MODULE Spec2Model ----
(***************************************************************************)
(* Model of the acquisition pipeline of twitter-likes-to-art: run.py main  *)
(* (dedupe, resolution cascade twikit -> paid API -> gallery-dl, CDN       *)
(* download, manifest write) and download_media.py (download_all,          *)
(* download_one), with the staging directory, the manifest file, the       *)
(* network requests and the log as state.                                  *)
(***************************************************************************)
EXTENDS Integers, Sequences, FiniteSets, TLC

\* ---------------------------------------------------------------- bounds
MaxId == 2          \* tweet ids are 1..MaxId (NoId stands for a missing id)
MaxRecords == 2     \* length of the input record list
MaxMedia == 2       \* images gallery-dl may write per tweet
MaxLimit == 1       \* largest --limit tried (0 stands for "not given")
MaxIdOnly == 5      \* id-only likes given to the twikit stage on its own
MaxPages == 2       \* pages of liked tweets, or batches of ids, of the paid-API client
batch_size == 1     \* batch_size of resolve_tweets (20 by default), scaled down

Ids == 1..MaxId
NoId == 0

\* ------------------------------------------------------------ pure parts
ALLOWED_HOSTS == {"pbs.twimg.com", "ton.twimg.com", "video.twimg.com"}

\* URLs are kept as what urlparse makes of them: scheme, hostname and the
\* text after the last dot of the path ("" when the path has no dot).
uJpg  == [scheme |-> "https", host |-> "pbs.twimg.com", suffix |-> "jpg"]
uPng  == [scheme |-> "https", host |-> "pbs.twimg.com", suffix |-> "PNG"]
uEvil == [scheme |-> "https", host |-> "evil.example", suffix |-> "jpeg"]
uFile == [scheme |-> "file", host |-> "", suffix |-> ""]

\* media_urls lists the input records are drawn from
MediaPool == {<< >>, <<uJpg>>, <<uJpg, uPng>>, <<uEvil>>, <<uFile>>}

\* media_urls lists a twikit lookup may return for a tweet with photos
TwikitMedia == {<<uJpg>>}

_is_allowed_url(url) ==
    IF url.scheme \notin {"http", "https"} THEN FALSE
    ELSE url.host \in ALLOWED_HOSTS

lower(s) ==
    CASE s = "PNG" -> "png"
      [] s = "JPG" -> "jpg"
      [] s = "JPEG" -> "jpeg"
      [] s = "Photo" -> "photo"
      [] OTHER -> s

extension_from_url(url) ==
    IF url.suffix # ""
    THEN LET ext == lower(url.suffix)
         IN  IF ext = "jpeg" THEN "jpg"
             ELSE IF ext \in {"jpg", "png", "gif", "webp"} THEN ext
             ELSE "jpg"
    ELSE "jpg"

\* A file of the staging directory named {tweet_id}_{num}.{ext}
File(t, n, e) == [tid |-> t, num |-> n, ext |-> e]

safe_filename_tweet_index(tweet_id, index, ext) == File(tweet_id, index, ext)

Exts == {"jpg", "png"}
Files == [tid : Ids, num : 0..MaxMedia, ext : Exts]

\* a tweet_id that is not a number but a piece of a path, such as "../1":
\* output_dir / "../1_0.jpg" names a file of the parent directory
DotDotId == -1
InsideStaging(f) == f.tid # DotDotId

\* the paths the programs may touch: the files of the staging directory and
\* the files a DotDotId leads to
Paths == Files \cup [tid : {DotDotId}, num : 0..MaxMedia, ext : Exts]

Record(t, m, src) == [tweet_id |-> t, media_urls |-> m, like_source |-> src]

RecordPool == {Record(t, m, "archive") : t \in Ids, m \in MediaPool}

SeqsUpTo(S, n) == UNION {[1..k -> S] : k \in 0..n}

Range(s) == {s[i] : i \in 1..Len(s)}

TweetIds(recs) == {recs[i].tweet_id : i \in 1..Len(recs)}

Min(a, b) == IF a < b THEN a ELSE b

Prefix(s, n) == SubSeq(s, 1, Min(n, Len(s)))

Entry(t, i, p, src) == [tweet_id |-> t, index |-> i, path |-> p, like_source |-> src]

Key(e) == <<e.tweet_id, e.index>>

NoDuplicateKeys(entries) ==
    \A i, j \in 1..Len(entries) : i # j => Key(entries[i]) # Key(entries[j])

\* run.py 132-139: keep the first record of every non-empty tweet_id
RECURSIVE DedupeFrom(_, _, _)
DedupeFrom(recs, i, seen_ids) ==
    IF i > Len(recs) THEN << >>
    ELSE LET tid == recs[i].tweet_id
         IN  IF tid # NoId /\ tid \notin seen_ids
             THEN <<recs[i]>> \o DedupeFrom(recs, i + 1, seen_ids \cup {tid})
             ELSE DedupeFrom(recs, i + 1, seen_ids)

Dedupe(recs) == DedupeFrom(recs, 1, {})

HasUrls(r) == r.media_urls # << >>
NoUrls(r) == r.media_urls = << >>

\* run.py 150-151
IdOnly(recs) == SelectSeq(recs, NoUrls)

\* a partition that forgets its filter
HasMedia_Unfiltered(recs) == recs

HasMedia(recs) == SelectSeq(recs, HasUrls)

\* run.py 156-157: "if args.limit" is false for None and for 0
Limited(recs, lim) == IF lim # 0 THEN Prefix(recs, lim) ELSE recs

\* a cascade that hands the whole population on
StillUnresolved_Everything(recs, resolved_ids) == recs

\* run.py 172 / 195: what is left for the next strategy
StillUnresolved(recs, resolved_ids) ==
    LET Left(r) == r.tweet_id \notin resolved_ids
    IN  SelectSeq(recs, Left)

\* resolve_via_twikit.py 122-127: the records of one answered batch, in batch
\* order; withPhotos are the ids whose tweet came back with photo media
RECURSIVE BatchRecords(_, _, _)
BatchRecords(batch, withPhotos, media) ==
    IF batch = << >> THEN << >>
    ELSE (IF Head(batch) \in withPhotos
          THEN <<Record(Head(batch), media, "twikit")>>
          ELSE << >>) \o BatchRecords(Tail(batch), withPhotos, media)

\* a backoff that grows by a fixed step
BackoffWait_Linear(streak) == Min(60 * streak, 900)

\* resolve_via_twikit.py 143
BackoffWait(streak) == Min(60 * (2 ^ streak), 900)

\* download_media.py 109-120: the (record, index, url) triples in loop order
RECURSIVE ItemsFrom(_, _)
ItemsFrom(records, r) ==
    IF r > Len(records) THEN << >>
    ELSE LET rec == records[r]
         IN  (IF rec.tweet_id = NoId \/ rec.media_urls = << >>
              THEN << >>
              ELSE [i \in 1..Len(rec.media_urls) |->
                      [rec |-> rec, index |-> i - 1, url |-> rec.media_urls[i]]])
             \o ItemsFrom(records, r + 1)

\* a loop that walks the items backwards
Items_Reversed(records) ==
    LET its == ItemsFrom(records, 1)
    IN  [k \in 1..Len(its) |-> its[Len(its) + 1 - k]]

Items(records) == ItemsFrom(records, 1)

\* sorted(output_dir.iterdir()) lists the directory's own files: names {tid}_{num}.{ext} in string order
ExtRank(e) == IF e = "jpg" THEN 0 ELSE 1

FileLess(f, g) ==
    \/ f.tid < g.tid
    \/ f.tid = g.tid /\ f.num < g.num
    \/ f.tid = g.tid /\ f.num = g.num /\ ExtRank(f.ext) < ExtRank(g.ext)

RECURSIVE SortFiles(_)
SortFiles(S) ==
    IF S = {} THEN << >>
    ELSE LET m == CHOOSE f \in S : \A g \in S \ {f} : FileLess(f, g)
         IN  <<m>> \o SortFiles(S \ {m})

Present(dir) == {f \in Files : dir[f] # "none"}

\* resolve_via_scrape.py 93, 108: orig.get("like_source", "scrape")
ScrapeSource(tid, to_scrape) ==
    IF tid \in TweetIds(to_scrape)
    THEN (CHOOSE r \in Range(to_scrape) : r.tweet_id = tid).like_source
    ELSE "scrape"

\* resolve_via_scrape.py 50-111: one entry per image file of the directory
_collect_manifest_entries(dir, to_scrape) ==
    LET imgs == SortFiles(Present(dir))
    IN  [k \in 1..Len(imgs) |->
            Entry(imgs[k].tid, imgs[k].num - 1, imgs[k],
                  ScrapeSource(imgs[k].tid, to_scrape))]

\* ----------------------------------------------------------------- state
VARIABLES
    cmd,            \* which program runs: "run" (run.py) or "download_media"
    limit,          \* args.limit of run.py, 0 when not given
    skip_existing,  \* skip_existing of download_all
    all_records,    \* the parsed input records
    pc,             \* position in main
    unique,         \* run.py: records after the dedupe by tweet_id
    id_only,        \* run.py: records without media_urls (after --limit)
    has_media,      \* run.py: records with media_urls, plus resolved ones
    unresolved,     \* run.py: what still needs a fallback
    all_entries,    \* run.py: manifest entries collected so far
    tw,             \* _resolve_batch: i, failed_streak, records, resolved, stopped,
                    \* what _get_client found (env), the batch calls and how they ended
    tw_status,      \* how resolve_tweets ended: "none", "returned", "raised"
    api_creds,      \* whether paid-API credentials are in the environment
    scrape_outcome, \* how gallery-dl ended: "none", "exit", "timeout", "not_found"
    dl,             \* download_all: items, k, seen, manifest_entries, target,
                    \* how each item of the loop ended (outcomes)
    staging,        \* the staging directory: file -> "none", "full", "partial"
    manifest,       \* manifest.json: [exists, entries]
    cdn_manifest,   \* _manifest_cdn.json: [exists, entries]
    net,            \* requests sent and files gallery-dl fetched, in order
    sleeps,         \* seconds slept, in order
    log,            \* counts printed by run.py, in order
    offered,        \* ids handed to each strategy in this run
    exit_status,    \* "running", "ok" or "error" (uncaught exception)
    run,            \* 1 for the first run on this staging directory, then 2
    prev,           \* what the first run left: manifest, has_media, unresolved, staging
    download_dir,   \* whether the staging directory exists
    visible,        \* the contents the manifest path held while it was written
    api,            \* the paid-API client: position in its loops, requests and sleeps
    parsed,         \* one tweet of a backend answer and the record made from it
    limiter         \* the web app's vote_limiter and the request threads calling it

vars == <<cmd, limit, skip_existing, all_records, pc, unique, id_only, has_media,
          unresolved, all_entries, tw, tw_status, api_creds, scrape_outcome, dl,
          staging, manifest, cdn_manifest, net, sleeps, log, offered, exit_status,
          run, prev, download_dir, visible, api, parsed, limiter>>

inputVars == <<cmd, limit, skip_existing, all_records>>

EmptyDir == [f \in Paths |-> "none"]
NoFile == [exists |-> FALSE, entries |-> << >>]
Written(entries) == [exists |-> TRUE, entries |-> entries]

TwIdle == [i |-> 0, failed_streak |-> 0, records |-> << >>, resolved |-> {},
           stopped |-> FALSE, env |-> "none", calls |-> << >>]
DlIdle == [items |-> << >>, k |-> 1, seen |-> {}, manifest_entries |-> << >>,
           target |-> "none", outcomes |-> << >>]
NoneOffered == [twikit |-> {}, api |-> {}, scrape |-> {}]
NoPrev == [manifest |-> NoFile, has_media |-> << >>, unresolved |-> << >>,
           staging |-> EmptyDir]

\* Path.write_text is open(path, "w"), which empties the file, followed by the
\* write: the contents the path holds on its way to holding the entries
Truncated == [complete |-> FALSE, entries |-> << >>]
Complete(entries) == [complete |-> TRUE, entries |-> entries]
write_text(entries) == {Truncated, Complete(entries)}

\* a staging directory holding at most one image file left by something earlier
PriorStagings == {EmptyDir} \cup {[EmptyDir EXCEPT ![f] = "full"] : f \in Files}

Say(msg, n) == Append(log, [msg |-> msg, n |-> n])

\* ------------------------------------------------- the paid-API client
\* fetch_likes_api.py 138 and resolve_tweet_ids.py 42: range(5)
max_retries == 5
\* int(r.headers.get("Retry-After", 60)), in seconds
RetryAfterDefault == 60
\* time.sleep(0.5) after a page or a batch, in milliseconds
PageDelay == 500
MillisPerSecond == 1000

\* the Retry-After header of a 429 answer: missing, or a number of seconds
NoHeader == -1
RetryAfterHeaders == {NoHeader, 0}

\* what session.get gives: an answer with a status, or (status 0) an exception
\* of requests: connection error or timeout
NoAnswer == 0
Responses ==
    {[status |-> st, retry_after |-> NoHeader] : st \in {200, 500, NoAnswer}}
        \cup {[status |-> 429, retry_after |-> h] : h \in RetryAfterHeaders}

retry_after(resp) ==
    IF resp.retry_after = NoHeader THEN RetryAfterDefault ELSE resp.retry_after

\* the for loop of the retries goes on while range(max_retries) has a value
AttemptsLeft_Unbounded(attempt) == TRUE

AttemptsLeft(attempt) == attempt < max_retries

\* the status that makes the loop sleep and try again
IsThrottled_AnyError(status) == status # 200

IsThrottled(status) == status = 429

\* what the client did, in order: a GET (n is the status of the answer) or a
\* sleep (n is its length in milliseconds) while working on a page or batch
Get(page, status) == [ev |-> "get", page |-> page, n |-> status]
Slept(why, page, ms) == [ev |-> why, page |-> page, n |-> ms]

\* the client before its first request: pages is the number of batches of
\* fetch_tweets_by_ids, or of pages the backend has for fetch_liked_tweets
ApiIdle == [phase |-> "idle", pages |-> 0, page |-> 0, attempt |-> 0, r |-> NoAnswer,
            error |-> NoAnswer, trace |-> << >>]
ApiCalled(pages) == [ApiIdle EXCEPT !.phase = "retry", !.pages = pages, !.page = 1]

\* the state of a freshly started process
\* ------------------------------------------------- the media filter
\* no tweet of a backend answer has been turned into a record yet
NotParsed == [strategy |-> "none", media |-> << >>, out |-> << >>, done |-> FALSE]

\* ------------------------------------------------- the vote limiter
\* webapp/app.py 42: RateLimiter(max_requests=120, window_seconds=60), scaled
max_requests == 1
window == 2
\* request threads of the thread pool that runs cast_vote, calls they make in
\* all, and the readings time.monotonic() takes
MaxThreads == 2
MaxCalls == 3
MaxClock == 2
Threads == 1..MaxThreads

\* webapp/app.py 29-32: _hits is empty. The lists the limiter builds are kept
\* by identity: lists[c] is the list call number c built, lists[0] the list
\* defaultdict creates, current the list _hits[key] refers to. One key is
\* modelled: keys do not share any state.
IdleThread == [pc |-> "idle", call |-> 0, now |-> 0, hits |-> 0]
LimiterIdle == [clock |-> 0,
                calls |-> 0,
                lists |-> [c \in 0..MaxCalls |-> << >>],
                current |-> 0,
                thread |-> [t \in Threads |-> IdleThread],
                allowed |-> << >>]

Fresh ==
    /\ pc = "start"
    /\ unique = << >>
    /\ id_only = << >>
    /\ has_media = << >>
    /\ unresolved = << >>
    /\ all_entries = << >>
    /\ tw = TwIdle
    /\ tw_status = "none"
    /\ api_creds = FALSE
    /\ scrape_outcome = "none"
    /\ dl = DlIdle
    /\ net = << >>
    /\ sleeps = << >>
    /\ log = << >>
    /\ offered = NoneOffered
    /\ exit_status = "running"
    /\ visible = {}

Init ==
    /\ cmd \in {"run", "download_media"}
    /\ all_records \in SeqsUpTo(RecordPool, MaxRecords)
    /\ limit \in IF cmd = "run" THEN 0..MaxLimit ELSE {0}
    /\ skip_existing \in IF cmd = "run" THEN {TRUE} ELSE BOOLEAN
    /\ staging \in PriorStagings
    /\ download_dir \in IF staging = EmptyDir THEN BOOLEAN ELSE {TRUE}
    /\ manifest = NoFile
    /\ cdn_manifest = NoFile
    /\ run = 1
    /\ prev = NoPrev
    /\ api = ApiIdle
    /\ parsed = NotParsed
    /\ limiter = LimiterIdle
    /\ Fresh

\* ------------------------------------------------------------ run.py main
\* run.py 132-141
DedupeStep ==
    /\ pc = "start"
    /\ cmd = "run"
    /\ unique' = Dedupe(all_records)
    /\ log' = Say("unique", Len(unique'))
    /\ pc' = "partition"
    /\ UNCHANGED <<inputVars, parsed, limiter, api, visible, download_dir, id_only, has_media, unresolved, all_entries, tw,
                   tw_status, api_creds, scrape_outcome, dl, staging, manifest,
                   cdn_manifest, net, sleeps, offered, exit_status, run, prev>>

\* run.py 148-160, 210-211
Partition ==
    /\ pc = "partition"
    /\ has_media' = HasMedia(unique)
    /\ LET found == IdOnly(unique)
           kept == Limited(found, limit)
       IN  /\ id_only' = kept
           /\ unresolved' = kept
           /\ IF found # << >>
              THEN /\ pc' = "twikit"
                   /\ log' = IF limit # 0 THEN Say("limited", Len(kept)) ELSE log
              ELSE /\ pc' = "cdn_start"
                   /\ log' = Say("no_id_only", 0)
    /\ UNCHANGED <<inputVars, parsed, limiter, api, visible, download_dir, unique, all_entries, tw, tw_status, api_creds,
                   scrape_outcome, dl, staging, manifest, cdn_manifest, net,
                   sleeps, offered, exit_status, run, prev>>

NoUrl == [scheme |-> "", host |-> "", suffix |-> ""]

\* one outbound request: a twikit login or batch lookup, the gallery-dl process,
\* a file fetched by gallery-dl (index is its num), a GET of download_one
Req(kind, ids, index, url) == [kind |-> kind, ids |-> ids, index |-> index, url |-> url]

IdList(recs) == [k \in 1..Len(recs) |-> recs[k].tweet_id]

\* resolve_via_twikit.py 163: seconds between two batches
delay == 1

\* ------------------------------------------- strategy 1: resolve_via_twikit
\* run.py 163-168 and _get_client (resolve_via_twikit.py 37-64): saved cookies
\* give a client without a request; otherwise credentials from .env are used to
\* log in; with neither, ValueError. An exception ends in run.py 177-179.
TwikitStart ==
    /\ pc = "twikit"
    /\ offered' = [offered EXCEPT !.twikit = TweetIds(id_only)]
    /\ \E env \in {"cookies", "login_ok", "login_failed", "no_credentials"} :
         /\ tw' = [TwIdle EXCEPT !.env = env]
         /\ net' = IF env \in {"login_ok", "login_failed"}
                   THEN Append(net, Req("login", << >>, 0, NoUrl))
                   ELSE net
         /\ IF env \in {"cookies", "login_ok"}
            THEN /\ pc' = "twikit_batch"
                 /\ tw_status' = tw_status
                 /\ log' = Say("twikit_resolving", Len(id_only))
            ELSE /\ pc' = "api_fallback"
                 /\ tw_status' = "raised"
                 /\ log' = Append(Say("twikit_resolving", Len(id_only)),
                                  [msg |-> "twikit_unavailable", n |-> 0])
    /\ UNCHANGED <<inputVars, parsed, limiter, api, visible, download_dir, unique, id_only, has_media, unresolved, all_entries,
                   api_creds, scrape_outcome, dl, staging, manifest, cdn_manifest,
                   sleeps, exit_status, run, prev>>

\* one call of client.get_tweets_by_ids and how it ended: "answered", "failed"
\* (an exception) or "rate_limited" (an exception whose text says so)
Call(batch, outcome) == [batch |-> batch, outcome |-> outcome]

\* a loop that marks a batch attempted before it is answered
ResolvedAfter_Early(resolved, batch, answered) == resolved \cup Range(batch)

\* resolve_via_twikit.py 118-119: resolved.update(batch) runs only when
\* get_tweets_by_ids returned
ResolvedAfter(resolved, batch, answered) ==
    IF answered THEN resolved \cup Range(batch) ELSE resolved

\* a loop that never gives up
HardStop_Never(streak) == FALSE

\* resolve_via_twikit.py 136: failed_streak >= 3
HardStop(streak) == streak >= 3

\* resolve_via_twikit.py 153-154: the pause after a batch that is not the last
PauseAfter(i, total) == IF i + batch_size < total THEN Append(sleeps, delay) ELSE sleeps

\* resolve_via_twikit.py 114-154: one turn of the for loop of _resolve_batch
TwikitBatch ==
    /\ pc = "twikit_batch"
    /\ ~tw.stopped
    /\ tw.i < Len(id_only)
    /\ LET ids == IdList(id_only)
           total == Len(ids)
           batch == SubSeq(ids, tw.i + 1, Min(tw.i + batch_size, total))
       IN  /\ net' = Append(net, Req("twikit_batch", batch, 0, NoUrl))
           /\ \/ \E withPhotos \in SUBSET Range(batch), media \in TwikitMedia :
                   \* get_tweets_by_ids answered (lines 118-127, 148-154)
                   /\ tw' = [tw EXCEPT !.resolved = ResolvedAfter(@, batch, TRUE),
                                       !.calls = Append(@, Call(batch, "answered")),
                                       !.failed_streak = 0,
                                       !.records = @ \o BatchRecords(batch, withPhotos, media),
                                       !.i = @ + batch_size]
                   /\ sleeps' = PauseAfter(tw.i, total)
              \/ \E rate_limited \in BOOLEAN :
                   \* get_tweets_by_ids raised (lines 129-146)
                   LET streak == tw.failed_streak + 1
                       call == Call(batch, IF rate_limited THEN "rate_limited" ELSE "failed")
                   IN  IF HardStop(streak)
                       THEN /\ tw' = [tw EXCEPT !.failed_streak = streak, !.stopped = TRUE,
                                                !.resolved = ResolvedAfter(@, batch, FALSE),
                                                !.calls = Append(@, call)]
                            /\ sleeps' = sleeps
                       ELSE /\ tw' = [tw EXCEPT !.failed_streak = streak,
                                                !.resolved = ResolvedAfter(@, batch, FALSE),
                                                !.calls = Append(@, call),
                                                !.i = @ + batch_size]
                            /\ sleeps' = IF rate_limited
                                         THEN Append(sleeps, BackoffWait(streak))
                                         ELSE PauseAfter(tw.i, total)
    /\ UNCHANGED <<inputVars, parsed, limiter, api, visible, download_dir, pc, unique, id_only, has_media, unresolved, all_entries,
                   tw_status, api_creds, scrape_outcome, dl, staging, manifest,
                   cdn_manifest, log, offered, exit_status, run, prev>>

\* resolve_via_twikit.py 156 and run.py 169-176
TwikitReturn ==
    /\ pc = "twikit_batch"
    /\ tw.stopped \/ tw.i >= Len(id_only)
    /\ has_media' = has_media \o tw.records
    /\ unresolved' = StillUnresolved(id_only, tw.resolved)
    /\ log' = LET l1 == IF tw.records # << >>
                        THEN Say("twikit_resolved", Len(tw.records))
                        ELSE log
              IN  Append(l1, IF unresolved' # << >>
                             THEN [msg |-> "unresolved_by_twikit", n |-> Len(unresolved')]
                             ELSE [msg |-> "all_resolved_via_twikit", n |-> 0])
    /\ tw_status' = "returned"
    /\ pc' = "scrape_check"
    /\ UNCHANGED <<inputVars, parsed, limiter, api, visible, download_dir, unique, id_only, all_entries, tw, api_creds,
                   scrape_outcome, dl, staging, manifest, cdn_manifest, net, sleeps,
                   offered, exit_status, run, prev>>

\* ------------------------------------------------ strategy 2: the paid API
\* the names fetch_likes_api.py defines at module level
FetchLikesApiNames ==
    {"API_BASE", "parse_api_tweet", "_load_dotenv", "get_oauth1_session", "get_me",
     "fetch_liked_tweets", "fetch_likes", "main"}

\* run.py 181: from fetch_likes_api import get_bearer_session, get_oauth1_session,
\* fetch_tweets_by_ids
ApiImportSucceeds ==
    {"get_bearer_session", "get_oauth1_session", "fetch_tweets_by_ids"}
        \subseteq FetchLikesApiNames

\* run.py 177-197: reached only from the except branch of the twikit stage. The
\* import of line 181 raises ImportError, which line 196 catches: no session is
\* built and no request is sent, whatever credentials the environment holds.
PaidApiFallback ==
    /\ pc = "api_fallback"
    /\ ~ApiImportSucceeds
    /\ \E creds \in BOOLEAN : api_creds' = creds
    /\ log' = Append(Say("falling_back_to_paid_api", 0),
                     [msg |-> "paid_api_unavailable", n |-> 0])
    /\ pc' = "scrape_check"
    /\ UNCHANGED <<inputVars, parsed, limiter, api, visible, download_dir, unique, id_only, has_media, unresolved, all_entries, tw,
                   tw_status, scrape_outcome, dl, staging, manifest, cdn_manifest, net,
                   sleeps, offered, exit_status, run, prev>>

\* --------------------------------------- strategy 3: resolve_via_scrape
\* resolve_via_scrape.py 144
ToScrape(records) ==
    LET Wanted(r) == r.tweet_id # NoId /\ r.media_urls = << >>
    IN  SelectSeq(records, Wanted)

\* the files gallery-dl names {tweet_id}_{num}.{extension}, num counted from 1
\* (resolve_via_scrape.py 36), when it finds count[t] images for tweet t
GdlFiles(count) ==
    {f \in {File(t, n, "jpg") : t \in DOMAIN count, n \in 1..MaxMedia} :
        f.num <= count[f.tid]}

GdlRequests(fs) == [k \in 1..Len(fs) |-> Req("gdl_file", <<fs[k].tid>>, fs[k].num, NoUrl)]

\* run.py 199, 210: nothing is left for gallery-dl
SkipScrape ==
    /\ pc = "scrape_check"
    /\ unresolved = << >>
    /\ pc' = "cdn_start"
    /\ UNCHANGED <<inputVars, parsed, limiter, api, visible, download_dir, unique, id_only, has_media, unresolved, all_entries, tw,
                   tw_status, api_creds, scrape_outcome, dl, staging, manifest,
                   cdn_manifest, net, sleeps, log, offered, exit_status, run, prev>>

\* run.py 199-207 with resolve_and_download up to subprocess.run raising
\* FileNotFoundError (resolve_via_scrape.py 203-207): it is raised again and
\* nothing in run.py catches it, so main ends with a traceback.
ScrapeNotFound ==
    /\ pc = "scrape_check"
    /\ unresolved # << >>
    /\ ToScrape(unresolved) # << >>
    /\ offered' = [offered EXCEPT !.scrape = TweetIds(ToScrape(unresolved))]
    /\ log' = Say("scrape_resolving", Len(unresolved))
    /\ scrape_outcome' = "not_found"
    /\ exit_status' = "error"
    /\ pc' = "crashed"
    /\ download_dir' = TRUE
    /\ UNCHANGED <<inputVars, parsed, limiter, api, visible, unique, id_only, has_media, unresolved, all_entries, tw,
                   tw_status, api_creds, dl, staging, manifest, cdn_manifest, net,
                   sleeps, run, prev>>

\* run.py 199-209 with resolve_and_download (resolve_via_scrape.py 141-230):
\* gallery-dl runs to its end or to the timeout, having written count[t] images
\* for tweet t (it leaves files that exist alone); killed at the timeout it may
\* leave its last file cut short. Then every image of the directory is collected.
ScrapeRun ==
    /\ pc = "scrape_check"
    /\ unresolved # << >>
    /\ LET to_scrape == ToScrape(unresolved)
       IN  /\ to_scrape # << >>
           /\ offered' = [offered EXCEPT !.scrape = TweetIds(to_scrape)]
           /\ \E outcome \in {"exit", "timeout"},
                 count \in [TweetIds(to_scrape) -> 0..MaxMedia],
                 cut \in BOOLEAN :
                LET fresh == SortFiles({f \in GdlFiles(count) : staging[f] = "none"})
                    last == IF fresh = << >> THEN File(NoId, 0, "jpg")
                            ELSE fresh[Len(fresh)]
                    dir == [f \in Paths |->
                              IF f \in Range(fresh)
                              THEN (IF cut /\ f = last THEN "partial" ELSE "full")
                              ELSE staging[f]]
                    entries == _collect_manifest_entries(dir, to_scrape)
                IN  /\ cut => (outcome = "timeout" /\ fresh # << >>)
                    /\ scrape_outcome' = outcome
                    /\ staging' = dir
                    /\ net' = Append(net, Req("gallery-dl", IdList(to_scrape), 0, NoUrl))
                                \o GdlRequests(fresh)
                    /\ manifest' = Written(entries)
                    /\ all_entries' = all_entries \o entries
                    /\ log' = Append(Say("scrape_resolving", Len(unresolved)),
                                     [msg |-> "gallery-dl_images", n |-> Len(entries)])
    /\ pc' = "cdn_start"
    /\ download_dir' = TRUE
    /\ visible' = visible \cup write_text(manifest'.entries)
    /\ UNCHANGED <<inputVars, parsed, limiter, api, unique, id_only, has_media, unresolved, tw, tw_status,
                   api_creds, dl, cdn_manifest, sleeps, exit_status, run, prev>>

\* -------------------------------------------- download_media.download_all
\* download_media.py 125-127: the destination of one media item
DestOf(item) ==
    safe_filename_tweet_index(item.rec.tweet_id, item.index, extension_from_url(item.url))

\* download_media.py 128-136
EntryOf(item) ==
    Entry(item.rec.tweet_id, item.index, DestOf(item), item.rec.like_source)

ItemKey(item) == <<item.rec.tweet_id, item.index>>

\* a download_all that forgets what it has seen
AlreadySeen_Never(key, seen) == FALSE

\* download_media.py 121: key in seen
AlreadySeen(key, seen) == key \in seen

\* download_media.py 137: skip_existing and dest.is_file()
SkipsExisting(skip, dir, dest) == skip /\ dir[dest] # "none"

\* run.py 213-223: main hands has_media to download_all
CdnStart ==
    /\ pc = "cdn_start"
    /\ has_media # << >>
    /\ dl' = [DlIdle EXCEPT !.items = Items(has_media), !.target = "cdn_manifest"]
    /\ log' = Say("cdn_downloading", Len(has_media))
    /\ pc' = "download"
    /\ download_dir' = TRUE
    /\ UNCHANGED <<inputVars, parsed, limiter, api, visible, unique, id_only, has_media, unresolved, all_entries, tw,
                   tw_status, api_creds, scrape_outcome, staging, manifest,
                   cdn_manifest, net, sleeps, offered, exit_status, run, prev>>

\* run.py 227-228
NoCdn ==
    /\ pc = "cdn_start"
    /\ has_media = << >>
    /\ log' = Say("no_cdn_downloads", 0)
    /\ pc' = "write_manifest"
    /\ UNCHANGED <<inputVars, parsed, limiter, api, visible, download_dir, unique, id_only, has_media, unresolved, all_entries, tw,
                   tw_status, api_creds, scrape_outcome, dl, staging, manifest,
                   cdn_manifest, net, sleeps, offered, exit_status, run, prev>>

\* download_media.py 165-176: main hands the parsed input file to download_all
DownloadMediaStart ==
    /\ pc = "start"
    /\ cmd = "download_media"
    /\ dl' = [DlIdle EXCEPT !.items = Items(all_records), !.target = "manifest"]
    /\ pc' = "download"
    /\ download_dir' = TRUE
    /\ UNCHANGED <<inputVars, parsed, limiter, api, visible, unique, id_only, has_media, unresolved, all_entries, tw,
                   tw_status, api_creds, scrape_outcome, staging, manifest,
                   cdn_manifest, net, sleeps, log, offered, exit_status, run, prev>>

AtItem == pc = "download" /\ dl.k <= Len(dl.items)

dlFrame == <<inputVars, parsed, limiter, api, visible, download_dir, pc, unique, id_only, has_media, unresolved, all_entries, tw,
             tw_status, api_creds, scrape_outcome, manifest, cdn_manifest, sleeps,
             log, offered, exit_status, run, prev>>

\* an engine that records what it failed to fetch
Recorded_Always(outcome) == TRUE

\* download_media.py 142-143: download_one returned True
Recorded(outcome) == outcome = "ok"

\* download_media.py 120-122: the key was met before in this call
DownloadSeen ==
    /\ AtItem
    /\ AlreadySeen(ItemKey(dl.items[dl.k]), dl.seen)
    /\ dl' = [dl EXCEPT !.k = @ + 1, !.outcomes = Append(@, "seen")]
    /\ UNCHANGED <<dlFrame, staging, net>>

\* download_media.py 123-139: the destination exists and skip_existing is set
DownloadExisting ==
    /\ AtItem
    /\ LET item == dl.items[dl.k]
       IN  /\ ~AlreadySeen(ItemKey(item), dl.seen)
           /\ SkipsExisting(skip_existing, staging, DestOf(item))
           /\ dl' = [dl EXCEPT !.k = @ + 1,
                               !.seen = @ \cup {ItemKey(item)},
                               !.outcomes = Append(@, "existing"),
                               !.manifest_entries = Append(@, EntryOf(item))]
    /\ UNCHANGED <<dlFrame, staging, net>>

\* download_media.py 142 with download_one 55-57: the URL is not allowed
DownloadBlocked ==
    /\ AtItem
    /\ LET item == dl.items[dl.k]
       IN  /\ ~AlreadySeen(ItemKey(item), dl.seen)
           /\ ~SkipsExisting(skip_existing, staging, DestOf(item))
           /\ ~_is_allowed_url(item.url)
           /\ dl' = [dl EXCEPT !.k = @ + 1, !.seen = @ \cup {ItemKey(item)},
                               !.outcomes = Append(@, "blocked")]
    /\ UNCHANGED <<dlFrame, staging, net>>

\* download_media.py 142-143 with download_one 58-70: the GET is sent; it is
\* answered and streamed to the end ("ok"), fails before the destination is
\* opened ("refused": connection error or error status), or fails after open()
\* truncated the destination ("broken")
DownloadFetch ==
    /\ AtItem
    /\ LET item == dl.items[dl.k]
           dest == DestOf(item)
       IN  /\ ~AlreadySeen(ItemKey(item), dl.seen)
           /\ ~SkipsExisting(skip_existing, staging, dest)
           /\ _is_allowed_url(item.url)
           /\ net' = Append(net, Req("cdn_get", <<item.rec.tweet_id>>, item.index, item.url))
           /\ \E outcome \in {"ok", "refused", "broken"} :
                /\ staging' = CASE outcome = "ok" -> [staging EXCEPT ![dest] = "full"]
                                [] outcome = "refused" -> staging
                                [] outcome = "broken" -> [staging EXCEPT ![dest] = "partial"]
                /\ dl' = [dl EXCEPT !.k = @ + 1,
                                    !.seen = @ \cup {ItemKey(item)},
                                    !.outcomes = Append(@, outcome),
                                    !.manifest_entries =
                                        IF Recorded(outcome) THEN Append(@, EntryOf(item)) ELSE @]
    /\ UNCHANGED dlFrame

\* download_media.py 145-152: the manifest of this call is written
DownloadAllReturn ==
    /\ pc = "download"
    /\ dl.k > Len(dl.items)
    /\ IF dl.target = "manifest"
       THEN manifest' = Written(dl.manifest_entries) /\ cdn_manifest' = cdn_manifest
       ELSE cdn_manifest' = Written(dl.manifest_entries) /\ manifest' = manifest
    /\ IF cmd = "run"
       THEN pc' = "cdn_done" /\ exit_status' = exit_status
       ELSE pc' = "done" /\ exit_status' = "ok"
    /\ visible' = IF dl.target = "manifest"
                  THEN visible \cup write_text(dl.manifest_entries)
                  ELSE visible
    /\ UNCHANGED <<inputVars, parsed, limiter, api, download_dir, unique, id_only, has_media, unresolved, all_entries, tw,
                   tw_status, api_creds, scrape_outcome, dl, staging, net, sleeps, log,
                   offered, run, prev>>

\* run.py 224-226
CdnDone ==
    /\ pc = "cdn_done"
    /\ all_entries' = all_entries \o dl.manifest_entries
    /\ cdn_manifest' = NoFile
    /\ log' = Say("downloaded_images", Len(dl.manifest_entries))
    /\ pc' = "write_manifest"
    /\ UNCHANGED <<inputVars, parsed, limiter, api, visible, download_dir, unique, id_only, has_media, unresolved, tw, tw_status,
                   api_creds, scrape_outcome, dl, staging, manifest, net, sleeps,
                   offered, exit_status, run, prev>>

\* run.py 230-233 when nothing made the staging directory: no item went to
\* gallery-dl and none to download_all, the only callers of mkdir, so write_text
\* raises FileNotFoundError and main ends with a traceback
WriteManifestNoDir ==
    /\ pc = "write_manifest"
    /\ ~download_dir
    /\ exit_status' = "error"
    /\ pc' = "crashed"
    /\ UNCHANGED <<inputVars, parsed, limiter, api, visible, download_dir, unique, id_only, has_media,
                   unresolved, all_entries, tw, tw_status, api_creds, scrape_outcome, dl,
                   staging, manifest, cdn_manifest, net, sleeps, log, offered, run, prev>>

\* run.py 230-238, with --no-rename: the staged files stay where they are
WriteManifest ==
    /\ pc = "write_manifest"
    /\ download_dir
    /\ manifest' = Written(all_entries)
    /\ log' = Say("manifest_images", Len(all_entries))
    /\ exit_status' = "ok"
    /\ pc' = "done"
    /\ visible' = visible \cup write_text(all_entries)
    /\ UNCHANGED <<inputVars, parsed, limiter, api, download_dir, unique, id_only, has_media, unresolved, all_entries, tw,
                   tw_status, api_creds, scrape_outcome, dl, staging, cdn_manifest, net,
                   sleeps, offered, run, prev>>

Next ==
    \/ DedupeStep
    \/ Partition
    \/ TwikitStart
    \/ TwikitBatch
    \/ TwikitReturn
    \/ PaidApiFallback
    \/ SkipScrape
    \/ ScrapeNotFound
    \/ ScrapeRun
    \/ CdnStart
    \/ NoCdn
    \/ DownloadMediaStart
    \/ DownloadSeen
    \/ DownloadExisting
    \/ DownloadBlocked
    \/ DownloadFetch
    \/ DownloadAllReturn
    \/ CdnDone
    \/ WriteManifestNoDir
    \/ WriteManifest

Spec == Init /\ [][Next]_vars

\* --------------------------------------------- a second run, same staging
\* inputs of the two-run specification: an id-only tweet, a tweet with two
\* photos, a tweet with a URL that is not allowed
RerunPool == {Record(1, << >>, "archive"), Record(2, <<uJpg, uPng>>, "archive"),
              Record(2, <<uEvil>>, "archive")}

InitRerun ==
    /\ cmd \in {"run", "download_media"}
    /\ all_records \in SeqsUpTo(RerunPool, MaxRecords)
    /\ limit = 0
    /\ skip_existing = TRUE
    /\ staging = EmptyDir
    /\ download_dir \in BOOLEAN
    /\ manifest = NoFile
    /\ cdn_manifest = NoFile
    /\ run = 1
    /\ prev = NoPrev
    /\ api = ApiIdle
    /\ parsed = NotParsed
    /\ limiter = LimiterIdle
    /\ Fresh

\* the same command is started again on the same input and staging directory;
\* the files of the directory, the manifest among them, are as the first run
\* left them
Restart ==
    /\ pc \in {"done", "crashed"}
    /\ run = 1
    /\ run' = 2
    /\ prev' = [manifest |-> manifest, has_media |-> has_media,
                unresolved |-> unresolved, staging |-> staging]
    /\ pc' = "start"
    /\ unique' = << >>
    /\ id_only' = << >>
    /\ has_media' = << >>
    /\ unresolved' = << >>
    /\ all_entries' = << >>
    /\ tw' = TwIdle
    /\ tw_status' = "none"
    /\ api_creds' = FALSE
    /\ scrape_outcome' = "none"
    /\ dl' = DlIdle
    /\ net' = << >>
    /\ sleeps' = << >>
    /\ log' = << >>
    /\ offered' = NoneOffered
    /\ exit_status' = "running"
    /\ visible' = {}
    /\ UNCHANGED <<inputVars, parsed, limiter, api, download_dir, staging, manifest, cdn_manifest>>

NextRerun == Next \/ Restart

SpecRerun == InitRerun /\ [][NextRerun]_vars

\* --------------------------- the twikit stage on a longer list of id-only likes
\* run.py on archives that hold nothing but likes without media
IdOnlyRecords(n) == [k \in 1..n |-> Record(k, << >>, "archive")]

InitTwikit ==
    /\ cmd = "run"
    /\ \E n \in 1..MaxIdOnly : all_records = IdOnlyRecords(n)
    /\ limit \in 0..MaxLimit
    /\ skip_existing = TRUE
    /\ staging = EmptyDir
    /\ download_dir \in BOOLEAN
    /\ manifest = NoFile
    /\ cdn_manifest = NoFile
    /\ run = 1
    /\ prev = NoPrev
    /\ api = ApiIdle
    /\ parsed = NotParsed
    /\ limiter = LimiterIdle
    /\ Fresh

\* the run up to the hand-over to resolve_and_download, on a machine where the
\* gallery-dl executable is not installed
NextTwikit ==
    \/ DedupeStep
    \/ Partition
    \/ TwikitStart
    \/ TwikitBatch
    \/ TwikitReturn
    \/ SkipScrape
    \/ ScrapeNotFound

SpecTwikit == InitTwikit /\ [][NextTwikit]_vars

\* ------------------------------- download_media.py on ids that hold a path
\* records whose tweet_id may be a piece of a path
PathPool == {Record(DotDotId, <<uJpg>>, "archive"), Record(1, <<uJpg>>, "archive"),
             Record(1, <<uJpg, uPng>>, "archive"), Record(2, <<uEvil>>, "archive")}

InitDownload ==
    /\ cmd = "download_media"
    /\ all_records \in SeqsUpTo(PathPool, MaxRecords + 1)
    /\ limit = 0
    /\ skip_existing \in BOOLEAN
    /\ staging \in PriorStagings
    /\ download_dir \in IF staging = EmptyDir THEN BOOLEAN ELSE {TRUE}
    /\ manifest = NoFile
    /\ cdn_manifest = NoFile
    /\ run = 1
    /\ prev = NoPrev
    /\ api = ApiIdle
    /\ parsed = NotParsed
    /\ limiter = LimiterIdle
    /\ Fresh

NextDownload ==
    \/ DownloadMediaStart
    \/ DownloadSeen
    \/ DownloadExisting
    \/ DownloadBlocked
    \/ DownloadFetch
    \/ DownloadAllReturn

SpecDownload == InitDownload /\ [][NextDownload]_vars

\* ---------------------------------- the paid-API client, called on its own
\* fetch_likes.py calls fetch_liked_tweets, resolve_tweet_ids.py calls
\* fetch_tweets_by_ids; both loop over pages (batches) and, inside, over the
\* attempts of one request
apiFrame == <<inputVars, parsed, limiter, download_dir, visible, pc, unique, id_only, has_media,
              unresolved, all_entries, tw, tw_status, api_creds, scrape_outcome, dl,
              staging, manifest, cdn_manifest, net, sleeps, log, offered,
              exit_status, run, prev>>

InitApi ==
    /\ cmd \in {"fetch_likes", "resolve_tweet_ids"}
    /\ all_records = << >>
    /\ limit = 0
    /\ skip_existing = TRUE
    /\ staging = EmptyDir
    /\ download_dir = FALSE
    /\ manifest = NoFile
    /\ cdn_manifest = NoFile
    /\ run = 1
    /\ prev = NoPrev
    /\ \E pages \in 1..MaxPages : api = ApiCalled(pages)
    /\ parsed = NotParsed
    /\ limiter = LimiterIdle
    /\ Fresh

\* fetch_likes_api.py 143-154 / resolve_tweet_ids.py 42-49: one turn of the
\* retry loop. session.get may raise, which ends the call; a 429 is slept on
\* and the loop goes on; any other answer leaves the loop.
ApiAttempt ==
    /\ api.phase = "retry"
    /\ AttemptsLeft(api.attempt)
    /\ \E resp \in Responses :
         LET sent == Append(api.trace, Get(api.page, resp.status))
         IN  api' = IF resp.status = NoAnswer
                    THEN [api EXCEPT !.trace = sent, !.phase = "raised",
                                     !.r = NoAnswer, !.error = NoAnswer]
                    ELSE IF IsThrottled(resp.status)
                    THEN [api EXCEPT !.trace = Append(sent,
                                         Slept("retry_sleep", api.page,
                                               retry_after(resp) * MillisPerSecond)),
                                     !.r = resp.status,
                                     !.attempt = @ + 1]
                    ELSE [api EXCEPT !.trace = sent, !.r = resp.status,
                                     !.phase = "check"]
    /\ UNCHANGED apiFrame

\* the statement after the loop is reached by break, or because the loop ran out
AfterLoop == api.phase = "check" \/ (api.phase = "retry" /\ ~AttemptsLeft(api.attempt))

\* fetch_likes_api.py 155 / resolve_tweet_ids.py 50: r.raise_for_status() on the
\* last answer, which is a 429 when the loop ran out
ApiRaiseForStatus ==
    /\ AfterLoop
    /\ api.r # 200
    /\ api' = [api EXCEPT !.phase = "raised", !.error = api.r]
    /\ UNCHANGED apiFrame

\* fetch_likes_api.py 168-171: another page follows (next_token), after 0.5 s;
\* resolve_tweet_ids.py 60, 32: 0.5 s after every batch, then the next batch
ApiNextPage ==
    /\ AfterLoop
    /\ api.r = 200
    /\ api.page < api.pages
    /\ api' = [api EXCEPT !.trace = Append(@, Slept("page_sleep", api.page, PageDelay)),
                          !.page = @ + 1,
                          !.attempt = 0,
                          !.phase = "retry"]
    /\ UNCHANGED apiFrame

\* fetch_likes_api.py 169-173: no next_token (the backend may end the listing
\* on any page); resolve_tweet_ids.py 60-61: the last batch, slept on as well
ApiReturn ==
    /\ AfterLoop
    /\ api.r = 200
    /\ IF cmd = "fetch_likes"
       THEN api' = [api EXCEPT !.phase = "returned"]
       ELSE /\ api.page = api.pages
            /\ api' = [api EXCEPT !.trace = Append(@, Slept("page_sleep", api.page, PageDelay)),
                                  !.phase = "returned"]
    /\ UNCHANGED apiFrame

NextApi ==
    \/ ApiAttempt
    \/ ApiRaiseForStatus
    \/ ApiNextPage
    \/ ApiReturn

SpecApi == InitApi /\ [][NextApi]_vars

\* --------------------------- parse_api_tweet and _tweet_to_record on one tweet
\* the media objects of a tweet in a backend answer. type NoType: the object has
\* no type (for the paid API also: the media key is not among includes.media);
\* url NoUrl: the object has no url (media_url and media_url_https for twikit)
NoType == "none"
MediaTypes == {"photo", "Photo", "video", NoType}
MediaObjects == [type : MediaTypes, url : {NoUrl, uJpg, uPng}]

\* a caller that asks for every kind of media
photos_only_Off == FALSE

\* fetch_likes_api.py 26, 122, resolve_tweet_ids.py 24: the default, which no
\* caller overrides
photos_only == TRUE

\* fetch_likes_api.py 43-52: the urls collected from media_keys, in their order
RECURSIVE ApiMediaUrls(_)
ApiMediaUrls(media) ==
    IF media = << >> THEN << >>
    ELSE LET m == Head(media)
             rest == ApiMediaUrls(Tail(media))
         IN  IF photos_only /\ lower(m.type) # "photo" THEN rest
             ELSE IF m.url # NoUrl THEN <<m.url>> \o rest
             ELSE rest

\* fetch_likes_api.py 36-63: None (the empty sequence here) when no url was kept
parse_api_tweet(t, media, like_source) ==
    LET media_urls == ApiMediaUrls(media)
    IN  IF media_urls = << >> THEN << >>
        ELSE <<Record(t, media_urls, like_source)>>

\* resolve_via_twikit.py 69-75
RECURSIVE TwikitMediaUrls(_)
TwikitMediaUrls(media) ==
    IF media = << >> THEN << >>
    ELSE LET m == Head(media)
             rest == TwikitMediaUrls(Tail(media))
         IN  IF m.url # NoUrl /\ m.type # NoType /\ m.type = "photo"
             THEN <<m.url>> \o rest
             ELSE rest

\* resolve_via_twikit.py 67-98
_tweet_to_record(t, media) ==
    LET media_urls == TwikitMediaUrls(media)
    IN  IF media_urls = << >> THEN << >>
        ELSE <<Record(t, media_urls, "twikit")>>

InitParse ==
    /\ cmd = "parse"
    /\ all_records = << >>
    /\ limit = 0
    /\ skip_existing = TRUE
    /\ staging = EmptyDir
    /\ download_dir = FALSE
    /\ manifest = NoFile
    /\ cdn_manifest = NoFile
    /\ run = 1
    /\ prev = NoPrev
    /\ api = ApiIdle
    /\ limiter = LimiterIdle
    /\ \E strategy \in {"api", "twikit"}, media \in SeqsUpTo(MediaObjects, MaxMedia) :
         parsed = [NotParsed EXCEPT !.strategy = strategy, !.media = media]
    /\ Fresh

parseFrame == <<inputVars, limiter, api, visible, download_dir, pc, unique, id_only,
                has_media, unresolved, all_entries, tw, tw_status, api_creds,
                scrape_outcome, dl, staging, manifest, cdn_manifest, net, sleeps,
                log, offered, exit_status, run, prev>>

\* resolve_tweet_ids.py 56-59 / fetch_likes_api.py 163-166 on one tweet of data
ParseApiTweet ==
    /\ parsed.strategy = "api"
    /\ ~parsed.done
    /\ parsed' = [parsed EXCEPT !.out = parse_api_tweet(1, parsed.media, "api_resolved"),
                                !.done = TRUE]
    /\ UNCHANGED parseFrame

\* resolve_via_twikit.py 122-127 on one tweet of the answer
TweetToRecord ==
    /\ parsed.strategy = "twikit"
    /\ ~parsed.done
    /\ parsed' = [parsed EXCEPT !.out = _tweet_to_record(1, parsed.media),
                                !.done = TRUE]
    /\ UNCHANGED parseFrame

NextParse ==
    \/ ParseApiTweet
    \/ TweetToRecord

SpecParse == InitParse /\ [][NextParse]_vars

\* --------------------------------- webapp/app.py: vote_limiter.is_allowed
InitLimiter ==
    /\ cmd = "webapp"
    /\ all_records = << >>
    /\ limit = 0
    /\ skip_existing = TRUE
    /\ staging = EmptyDir
    /\ download_dir = FALSE
    /\ manifest = NoFile
    /\ cdn_manifest = NoFile
    /\ run = 1
    /\ prev = NoPrev
    /\ api = ApiIdle
    /\ parsed = NotParsed
    /\ limiter = LimiterIdle
    /\ Fresh

limiterFrame == <<inputVars, parsed, api, visible, download_dir, pc, unique, id_only,
                  has_media, unresolved, all_entries, tw, tw_status, api_creds,
                  scrape_outcome, dl, staging, manifest, cdn_manifest, net, sleeps,
                  log, offered, exit_status, run, prev>>

\* time.monotonic() moves on
Tick ==
    /\ cmd = "webapp"
    /\ limiter.clock < MaxClock
    /\ limiter' = [limiter EXCEPT !.clock = @ + 1]
    /\ UNCHANGED limiterFrame

\* webapp/app.py 164-165, 35-36: a request thread enters is_allowed, reads the
\* clock and the list _hits[key] refers to
IsAllowedEnter(t) ==
    /\ cmd = "webapp"
    /\ limiter.thread[t].pc = "idle"
    /\ limiter.calls < MaxCalls
    /\ limiter' = [limiter EXCEPT !.calls = @ + 1,
                                  !.thread[t] = [pc |-> "prune",
                                                 call |-> limiter.calls + 1,
                                                 now |-> limiter.clock,
                                                 hits |-> limiter.current]]
    /\ UNCHANGED limiterFrame

\* webapp/app.py 38: a new list of the hits still in the window is built from
\* the list read at line 36 and bound to _hits[key] and to hits
IsAllowedPrune(t) ==
    /\ limiter.thread[t].pc = "prune"
    /\ LET th == limiter.thread[t]
           InWindow(x) == th.now - x < window
           pruned == SelectSeq(limiter.lists[th.hits], InWindow)
       IN  limiter' = [limiter EXCEPT !.lists[th.call] = pruned,
                                      !.current = th.call,
                                      !.thread[t].hits = th.call,
                                      !.thread[t].pc = "check"]
    /\ UNCHANGED limiterFrame

\* webapp/app.py 39-42: refuse when the thread's list is full, else append now
\* to that list and allow
IsAllowedCheck(t) ==
    /\ limiter.thread[t].pc = "check"
    /\ LET th == limiter.thread[t]
       IN  IF Len(limiter.lists[th.hits]) >= max_requests
           THEN limiter' = [limiter EXCEPT !.thread[t] = IdleThread]
           ELSE limiter' = [limiter EXCEPT !.lists[th.hits] = Append(@, th.now),
                                           !.allowed = Append(@, th.now),
                                           !.thread[t] = IdleThread]
    /\ UNCHANGED limiterFrame

NextLimiter ==
    \/ Tick
    \/ \E t \in Threads : IsAllowedEnter(t)
    \/ \E t \in Threads : IsAllowedPrune(t)
    \/ \E t \in Threads : IsAllowedCheck(t)

SpecLimiter == InitLimiter /\ [][NextLimiter]_vars

\* ================================================================ claims
\* ids for which the session-token strategy returned a record with media
TwikitResolvedIds == TweetIds(tw.records)

\* the identifier-only items of the input, before --limit
IdOnlyInput == TweetIds(IdOnly(Dedupe(all_records)))

Finished == pc \in {"done", "crashed"}

\* C1: an identifier-only item for which an earlier strategy returned a record
\* with media is never in the batch offered to a later strategy (paid API or
\* gallery-dl) in the same run.
C1_MonotonicResolution ==
    \A t \in TwikitResolvedIds : t \notin offered.api \cup offered.scrape

\* C1 witness: twikit resolved one item and gallery-dl was offered another
C1_Witness ==
    /\ TwikitResolvedIds # {}
    /\ offered.scrape # {}

\* C2: the manifest written by a run never holds two entries with the same
\* (tweet_id, index), whatever the staging directory held before, the files of
\* an earlier run on the same input included.
C2_ManifestKeysUnique ==
    manifest.exists => NoDuplicateKeys(manifest.entries)

\* the destination file a GET of download_one was sent for
FetchedFile(q) == File(q.ids[1], q.index, extension_from_url(q.url))

\* C3: a second run on the same records and staging directory sends no GET for
\* a file the first run completed and writes the manifest the first run wrote.
\* Stated for the second runs that resolved the same records, left the same
\* items unresolved and found nothing new to store, where nothing but the
\* acquisition itself can make the manifests differ.
C3_RerunIdempotent ==
    (/\ run = 2
     /\ pc = "done"
     /\ has_media = prev.has_media
     /\ unresolved = prev.unresolved
     /\ staging = prev.staging)
    => /\ manifest = prev.manifest
       /\ \A q \in Range(net) :
            q.kind = "cdn_get" => prev.staging[FetchedFile(q)] # "full"

\* the items download_all has dealt with, each the first one of its key
FirstOfKey(k) ==
    \A j \in 1..(k - 1) : ItemKey(dl.items[j]) # ItemKey(dl.items[k])

\* C4: for a media location whose scheme is not http/https or whose host is not
\* allowed, download_all sends no GET and emits no ManifestEntry, whatever the
\* staging directory held and whatever skip_existing is.
C4_DisallowedLocationIgnored ==
    \A k \in 1..Len(dl.items) :
        (k < dl.k /\ FirstOfKey(k) /\ ~_is_allowed_url(dl.items[k].url))
        => /\ \A e \in Range(dl.manifest_entries) : Key(e) # ItemKey(dl.items[k])
           /\ \A q \in Range(net) : q.kind = "cdn_get" => q.url # dl.items[k].url

\* the identifier-only items a strategy resolved: a record with media from
\* twikit, or an entry from gallery-dl
ResolvedIds == TwikitResolvedIds \cup {e.tweet_id : e \in Range(all_entries)}

\* C5: when the cascade is over every identifier-only input item is resolved
\* or reported as exhausted. The only count run.py prints of items still
\* without media is the one of the items it hands to gallery-dl, the last
\* strategy; an item neither resolved nor in that count is dropped silently.
C5_ExhaustedReported ==
    (cmd = "run" /\ pc = "done")
    => \A t \in IdOnlyInput \ ResolvedIds : t \in offered.scrape

\* C6: within one run no (tweet_id, index) is acquired by two paths: an item
\* handed to gallery-dl is not passed to download_all, an item twikit resolved
\* to URLs is not scraped, and no file is fetched both by gallery-dl and by
\* download_one.
C6_AtMostOncePerRun ==
    cmd = "run"
    => /\ offered.scrape \cap TweetIds(has_media) = {}
       /\ offered.scrape \cap TwikitResolvedIds = {}
       /\ \A a, b \in Range(net) :
            (a.kind = "cdn_get" /\ b.kind = "gdl_file")
            => ~(a.ids = b.ids /\ a.index = b.index - 1)

\* C6 witness: one run in which gallery-dl fetched a file and download_one
\* another
C6_Witness ==
    /\ cmd = "run"
    /\ \E a, b \in Range(net) : a.kind = "cdn_get" /\ b.kind = "gdl_file"

\* C7: when twikit finishes and leaves items unresolved, they are offered to
\* the paid API, and gallery-dl gets only what the paid API leaves.
C7_FallThroughOrder ==
    (cmd = "run" /\ pc = "scrape_check" /\ tw_status = "returned" /\ unresolved # << >>)
    => offered.api = TweetIds(unresolved)

\* C8: a stage removes an item from the unresolved population only if its
\* output holds a record with media for it; an item looked up without media
\* stays unresolved.
C8_RemovedOnlyIfResolved ==
    tw_status = "returned"
    => \A t \in TweetIds(id_only) \ TweetIds(unresolved) : t \in TwikitResolvedIds

\* C9: when the gallery-dl executable is not found, the run still downloads
\* the records that have media, writes the manifest and ends without error.
C9_ScrapeSetupConfined ==
    (scrape_outcome = "not_found" /\ Finished)
    => /\ exit_status = "ok"
       /\ manifest = Written(all_entries)
       /\ has_media # << >> => (dl.items = Items(has_media) /\ dl.k > Len(dl.items))

\* C10: when twikit fails its setup and paid-API credentials are configured,
\* the paid API is invoked with the unresolved items.
C10_FallbackInvoked ==
    (cmd = "run" /\ pc = "scrape_check" /\ tw_status = "raised" /\ api_creds)
    => offered.api = TweetIds(id_only)

\* the positions of the client's trace that belong to page (batch) p
GetsOf(p) == {i \in 1..Len(api.trace) : api.trace[i].ev = "get" /\ api.trace[i].page = p}
ThrottledOf(p) == {i \in GetsOf(p) : api.trace[i].n = 429}
RetrySleepsOf(p) ==
    {i \in 1..Len(api.trace) : api.trace[i].ev = "retry_sleep" /\ api.trace[i].page = p}
AnsweredOk(p) == \E i \in GetsOf(p) : api.trace[i].n = 200
ApiOver == api.phase \in {"returned", "raised"}

C12_NoRetryOnOtherFailure ==
    \A i \in 1..Len(api.trace) :
        (api.trace[i].ev = "get" /\ api.trace[i].n \notin {200, 429})
        => /\ i = Len(api.trace)
           /\ api.phase \in {"check", "raised"}
           /\ api.phase = "raised" => api.error = api.trace[i].n

\* C12 witness: a 500 that came after a 429 of the same request ended the call
C12_Witness ==
    /\ api.phase = "raised"
    /\ api.error = 500
    /\ ThrottledOf(api.page) # {}

\* the milliseconds slept between positions i and j of the trace
RECURSIVE SleptBetween(_, _)
SleptBetween(i, j) ==
    IF i + 1 >= j THEN 0
    ELSE (IF api.trace[i + 1].ev = "get" THEN 0 ELSE api.trace[i + 1].n)
         + SleptBetween(i + 1, j)

\* C13: between two successive requests of one session (next page, next
\* batch, retry of a throttled request) at least 0.5 s are slept, for every
\* Retry-After value, 0 included.
C13_MinimumSpacing ==
    \A i, j \in 1..Len(api.trace) :
        (i < j /\ api.trace[i].ev = "get" /\ api.trace[j].ev = "get")
        => SleptBetween(i, j) >= PageDelay

\* entries in their order, without those whose key occurred before
RECURSIVE FirstWinsFrom(_, _, _)
FirstWinsFrom(entries, i, keys) ==
    IF i > Len(entries) THEN << >>
    ELSE IF Key(entries[i]) \in keys
         THEN FirstWinsFrom(entries, i + 1, keys)
         ELSE <<entries[i]>> \o FirstWinsFrom(entries, i + 1, keys \cup {Key(entries[i])})

FirstWins(entries) == FirstWinsFrom(entries, 1, {})

\* C14: the final manifest of a run is the scrape entries followed by the CDN
\* entries, with every entry whose (tweet_id, index) occurred before removed.
C14_MergeFirstWins ==
    (cmd = "run" /\ pc = "done") => manifest.entries = FirstWins(all_entries)

\* C15: whoever reads the manifest path during a run finds a complete
\* manifest, the previous one or the new one, never a half-written file.
C15_AtomicManifestWrite ==
    \A v \in visible : v.complete

\* the GETs download_one sent
CdnGets == {i \in 1..Len(net) : net[i].kind = "cdn_get"}

\* C16: one call of download_all returns no two entries with the same
\* (tweet_id, index) and sends no two GETs for the same key: a record given
\* twice counts once.
C16_SingleCallDedup ==
    /\ NoDuplicateKeys(dl.manifest_entries)
    /\ \A i, j \in CdnGets :
         i # j => <<net[i].ids, net[i].index>> # <<net[j].ids, net[j].index>>

\* C16 witness: download_all was given the same record twice, fetched its one
\* image once and returned one entry
C16_Witness ==
    /\ cmd = "download_media"
    /\ pc = "done"
    /\ all_records = <<Record(1, <<uJpg>>, "archive"), Record(1, <<uJpg>>, "archive")>>
    /\ dl.manifest_entries = <<Entry(1, 0, File(1, 0, "jpg"), "archive")>>
    /\ Cardinality(CdnGets) = 1

\* C17: a fetch that fails leaves a file that existed at the destination as it
\* was, and no entry is emitted for the item: no step takes a complete file
\* away, and a step that sends a GET adds an entry only for a complete file.
C17_FailedFetchKeepsFile ==
    [][/\ \A f \in Paths : staging[f] = "full" => staging'[f] = "full"
       /\ (Len(net') > Len(net) /\ pc = "download"
           /\ Len(dl'.manifest_entries) > Len(dl.manifest_entries))
          => staging'[dl'.manifest_entries[Len(dl'.manifest_entries)].path] = "full"]_vars

\* C18: no entry of download_all refers to a file cut short by an interrupted
\* fetch, in the run of the fetch or in a later run on the same directory.
C18_NoTruncatedEntries ==
    \A e \in Range(dl.manifest_entries) : staging[e.path] # "partial"

\* C19: every file download_one creates or overwrites lies inside the staging
\* directory; for a tweet_id that leads out of it nothing is fetched or written.
C19_StagingContainment ==
    /\ \A f \in Paths : ~InsideStaging(f) => staging[f] = "none"
    /\ \A i \in CdnGets : InsideStaging(FetchedFile(net[i]))

\* C20: download_all, and the manifest step of a run, leave a manifest file
\* holding the array of their entries, [] when there are none.
C20_ManifestAlwaysWritten ==
    /\ (cmd = "download_media" /\ Finished) => manifest = Written(dl.manifest_entries)
    /\ (cmd = "run" /\ Finished /\ scrape_outcome # "not_found")
       => manifest = Written(all_entries)

\* the items download_all has dealt with
Processed == 1..(dl.k - 1)
Kept == {j \in Processed : dl.outcomes[j] \in {"ok", "existing"}}
SentFor(j) ==
    \E i \in CdnGets : /\ net[i].ids = <<dl.items[j].rec.tweet_id>>
                       /\ net[i].index = dl.items[j].index

\* C21: a failed fetch never keeps download_all from fetching and recording the
\* other items of the call: every item of the list is dealt with, a GET is sent
\* for every one that needs it, and the entries are exactly those of the
\* deduplicated items whose fetch succeeded or whose file was there already.
C21_PerItemIsolation ==
    /\ Len(dl.outcomes) = dl.k - 1
    /\ {Key(e) : e \in Range(dl.manifest_entries)} = {ItemKey(dl.items[j]) : j \in Kept}
    /\ Len(dl.manifest_entries) = Cardinality(Kept)
    /\ \A j \in Processed : dl.outcomes[j] \in {"ok", "refused", "broken"} => SentFor(j)
    /\ pc \in {"cdn_done", "write_manifest", "done"} => dl.k = Len(dl.items) + 1
    /\ (cmd = "download_media" /\ pc = "done") => manifest = Written(dl.manifest_entries)

\* C21 witness: a call that ended after a fetch failed and a later one succeeded
C21_Witness ==
    /\ pc = "done"
    /\ \E i, j \in Processed : /\ i < j
                               /\ dl.outcomes[i] \in {"refused", "broken"}
                               /\ dl.outcomes[j] = "ok"

\* C22: when one batch of fetch_tweets_by_ids fails, the records of the
\* earlier batches are still returned and the remaining batches still sent.
C22_BatchIsolation ==
    (cmd = "resolve_tweet_ids" /\ ApiOver)
    => /\ \A p \in 1..api.pages : GetsOf(p) # {}
       /\ (\E p \in 1..api.pages : AnsweredOk(p)) => api.phase = "returned"

\* C23: a twikit batch call that fails with a throttling signal below the
\* hard stop is followed, after the backoff, by a call for the same batch.
C23_BackoffRetriesBatch ==
    \A i \in 1..Len(tw.calls) :
        (tw.calls[i].outcome = "rate_limited" /\ ~(tw.stopped /\ i = Len(tw.calls)))
        => /\ i < Len(tw.calls) => tw.calls[i + 1].batch = tw.calls[i].batch
           /\ tw_status = "returned" => i < Len(tw.calls)

\* the failed calls at the end of the first n calls
RECURSIVE TrailingFailures(_)
TrailingFailures(n) ==
    IF n = 0 \/ tw.calls[n].outcome = "answered" THEN 0
    ELSE 1 + TrailingFailures(n - 1)

NumBatches == (Len(id_only) + batch_size - 1) \div batch_size
NthBatch(n) ==
    SubSeq(IdList(id_only), (n - 1) * batch_size + 1, Min(n * batch_size, Len(id_only)))

C25_NoCookiesFailsFast ==
    tw.env \in {"login_ok", "login_failed", "no_credentials"}
    => /\ \A q \in Range(net) : q.kind \notin {"login", "twikit_batch"}
       /\ tw_status = "raised"

\* C26: when gallery-dl runs into its timeout, resolve_and_download does not
\* raise and returns no entry, whatever files the directory holds.
C26_TimeoutResolvesNone ==
    (scrape_outcome = "timeout" /\ pc = "cdn_start")
    => /\ all_entries = << >>
       /\ exit_status = "running"

\* C27: what a strategy produces is tagged with the strategy: like_source is
\* "twikit" on twikit's records and "scrape" on gallery-dl's entries.
C27_ProvenanceNamesStrategy ==
    /\ \A r \in Range(tw.records) : r.like_source = "twikit"
    /\ (pc = "cdn_start" /\ scrape_outcome \in {"exit", "timeout"})
       => \A e \in Range(all_entries) : e.like_source = "scrape"

\* C28: with --limit L twikit is still offered every identifier-only item, and
\* only what gallery-dl is handed is capped at L.
C28_LimitCapsScrapeOnly ==
    (cmd = "run" /\ offered.twikit # {})
    => /\ offered.twikit = IdOnlyInput
       /\ limit # 0 => Cardinality(offered.scrape) <= limit

\* C29: in the final manifest every entry's path is named
\* {tweet_id}_{index}.{ext} for its own tweet_id and index, and index >= 0.
C29_DeterministicNames ==
    (Finished /\ manifest.exists)
    => \A e \in Range(manifest.entries) :
         /\ e.index >= 0
         /\ e.path = File(e.tweet_id, e.index, e.path.ext)

\* the first record of the input carrying a tweet_id, and the first one
\* carrying a (tweet_id, index)
FirstRecordOf(t) ==
    CHOOSE i \in 1..Len(all_records) :
        /\ all_records[i].tweet_id = t
        /\ \A j \in 1..(i - 1) : all_records[j].tweet_id # t
FirstRecordWith(t, index) ==
    CHOOSE i \in 1..Len(all_records) :
        /\ all_records[i].tweet_id = t /\ Len(all_records[i].media_urls) > index
        /\ \A j \in 1..(i - 1) :
             ~(all_records[j].tweet_id = t /\ Len(all_records[j].media_urls) > index)

Before(r1, i1, r2, i2) == r1 < r2 \/ (r1 = r2 /\ i1 < i2)

\* C30 as stated: the entries of download_all are ordered by the position of
\* the first record carrying their tweet_id, then by media index.
C30_OrderByFirstRecord ==
    cmd = "download_media"
    => \A a, b \in 1..Len(dl.manifest_entries) :
         a < b => LET ea == dl.manifest_entries[a]
                      eb == dl.manifest_entries[b]
                  IN  Before(FirstRecordOf(ea.tweet_id), ea.index,
                             FirstRecordOf(eb.tweet_id), eb.index)

\* C30: the entries of download_all are ordered by the position of the record
\* they come from, the first one carrying their (tweet_id, index), then by
\* media index, whichever fetches were skipped as existing.
C30_OrderByContributingRecord ==
    cmd = "download_media"
    => \A a, b \in 1..Len(dl.manifest_entries) :
         a < b => LET ea == dl.manifest_entries[a]
                      eb == dl.manifest_entries[b]
                  IN  Before(FirstRecordWith(ea.tweet_id, ea.index), ea.index,
                             FirstRecordWith(eb.tweet_id, eb.index), eb.index)

\* C30 witness: three entries returned, one for a file that was there and one
\* for a file fetched, the later record adding an image to an earlier tweet_id
C30_Witness ==
    /\ pc = "done"
    /\ Len(dl.manifest_entries) = 3
    /\ "existing" \in Range(dl.outcomes)
    /\ "ok" \in Range(dl.outcomes)
    /\ \E i, j \in 1..Len(all_records) :
         /\ i < j
         /\ all_records[i].tweet_id = all_records[j].tweet_id
         /\ Len(all_records[i].media_urls) < Len(all_records[j].media_urls)

\* the media of the parsed tweet whose type is photo, by position
PhotoPositions == {i \in 1..Len(parsed.media) : lower(parsed.media[i].type) = "photo"}

\* urls is made of locations of photo media only, taken in the media's order
InMediaOrder(urls) ==
    \E pos \in [1..Len(urls) -> PhotoPositions] :
        /\ \A i \in 1..Len(urls) : parsed.media[pos[i]].url = urls[i]
        /\ \A i, j \in 1..Len(urls) : i < j => pos[i] < pos[j]

\* C31: a record made by the paid API strategy or by the twikit strategy lists
\* only locations of media whose type is photo, in the order of the tweet's
\* media, and never an empty list; a tweet with no photo media yields no record.
C31_PhotoOnlyRecords ==
    parsed.done
    => /\ \A i \in 1..Len(parsed.out) :
            /\ parsed.out[i].media_urls # << >>
            /\ NoUrl \notin Range(parsed.out[i].media_urls)
            /\ InMediaOrder(parsed.out[i].media_urls)
       /\ PhotoPositions = {} => parsed.out = << >>

\* C31 witness: the paid API strategy made a record from a tweet that carries a
\* video with a url before a photo, and the record lists the photo alone
C31_Witness ==
    /\ parsed.done
    /\ parsed.strategy = "api"
    /\ parsed.media = <<[type |-> "video", url |-> uPng], [type |-> "photo", url |-> uJpg]>>
    /\ parsed.out = <<Record(1, <<uJpg>>, "api_resolved")>>

\* the sleeps _resolve_batch makes for its first n calls: none at the hard
\* stop, the backoff after a throttled call, else the pause between batches
RECURSIVE WaitsUpTo(_)
WaitsUpTo(n) ==
    IF n = 0 THEN << >>
    ELSE LET k == TrailingFailures(n)
             capped == IF 60 * (2 ^ k) > 900 THEN 900 ELSE 60 * (2 ^ k)
         IN  WaitsUpTo(n - 1) \o
             (IF k >= 3 THEN << >>
              ELSE IF tw.calls[n].outcome = "rate_limited" THEN <<capped>>
              ELSE IF n * batch_size < Len(id_only) THEN <<delay>>
              ELSE << >>)

\* C32: every throttling wait of the twikit strategy is min(60 * 2^k, 900)
\* seconds, k being the count of batches that failed in a row up to and
\* including the throttled one; no wait exceeds 900 seconds.
C32_BackoffBound ==
    /\ sleeps = WaitsUpTo(Len(tw.calls))
    /\ \A i \in 1..Len(sleeps) : sleeps[i] <= 900

\* C32 witness: two batches in a row were throttled, the waits being 120 and
\* then 240 seconds, and the strategy returned
C32_Witness ==
    /\ tw_status = "returned"
    /\ \E i \in 1..Len(tw.calls) :
         /\ tw.calls[i].outcome = "rate_limited"
         /\ TrailingFailures(i) = 2
    /\ \E j \in 1..Len(sleeps) : j > 1 /\ sleeps[j - 1] = 120 /\ sleeps[j] = 240

\* C33: every entry resolve_and_download returns has the tweet_id of a record
\* it was offered in that call, whatever images the staging directory held.
C33_ScrapeEntriesWithinBatch ==
    (pc = "cdn_start" /\ scrape_outcome \in {"exit", "timeout"})
    => \A i \in 1..Len(all_entries) : all_entries[i].tweet_id \in offered.scrape

\* the ids of the batches whose call failed, and of the batches not sent
FailedBatchIds ==
    UNION {Range(tw.calls[i].batch) :
             i \in {j \in 1..Len(tw.calls) : tw.calls[j].outcome # "answered"}}
UnsentBatchIds ==
    UNION {Range(NthBatch(n)) : n \in (Len(tw.calls) + 1)..NumBatches}

C35_DedupKeepsMedia ==
    (cmd = "run" /\ pc # "start")
    => \A i \in 1..Len(all_records) :
         (all_records[i].tweet_id # NoId /\ HasUrls(all_records[i]))
         => /\ \E j \in 1..Len(unique) :
                 /\ unique[j].tweet_id = all_records[i].tweet_id
                 /\ HasUrls(unique[j])
            /\ all_records[i].tweet_id \notin TweetIds(id_only)

\* the requests sent so far by each strategy
TwikitBatchRequests == {i \in 1..Len(net) : net[i].kind = "twikit_batch"}
PaidApiRequests == {i \in 1..Len(api.trace) : api.trace[i].ev = "get"}
CeilDiv(n, d) == (n + d - 1) \div d

\* C36: for n identifier-only items twikit sends at most ceil(n / batch_size)
\* batch requests and the paid API at most 5 * ceil(n / 100) requests, and the
\* run does not end before the download stage.
C36_BoundedCascade ==
    cmd = "run"
    => /\ Cardinality(TwikitBatchRequests) <= CeilDiv(Len(id_only), batch_size)
       /\ Cardinality(PaidApiRequests) <= max_retries * CeilDiv(Len(id_only), 100)
       /\ Finished => (pc = "done" \/ scrape_outcome # "not_found")

\* the calls is_allowed answered True whose timestamp lies in [s, s + window)
AllowedIn(s) ==
    {i \in 1..Len(limiter.allowed) :
        s <= limiter.allowed[i] /\ limiter.allowed[i] < s + window}

\* C37: for the key, at most max_requests of the calls is_allowed answers True
\* have timestamps within one window of window seconds, also when request
\* threads call it at the same time.
C37_LimiterHolds ==
    \A s \in 0..MaxClock : Cardinality(AllowedIn(s)) <= max_requests

====
